---- MODULE Spec2Model ----
(***************************************************************************)
(* Model of the FMCSA carrier extractor: src/extractor.js and its variant  *)
(* src/unnamed/part_000 (which adds MODE and absoluteUrl).                 *)
(*                                                                         *)
(* JavaScript runs to completion between awaits, so one action of the      *)
(* model is the code executed from the completion of one awaited promise   *)
(* (a fetch, a body read, a sleep, a Promise.all) up to the next await.    *)
(*                                                                         *)
(* Text is modelled at the granularity the code inspects it:               *)
(*   - free text and the authority-status cell are sequences of words, so  *)
(*     String.includes is "contiguous subsequence" and toUpperCase maps    *)
(*     every word to its upper-case form;                                  *)
(*   - the numeric cells are sequences of characters, parsed as Number()   *)
(*     parses them;                                                        *)
(*   - time is counted in seconds instead of milliseconds (TLC integers    *)
(*     are 32-bit), which leaves Math.ceil(diff / one day) unchanged.      *)
(***************************************************************************)
EXTENDS Integers, Sequences, FiniteSets, TLC

VARIABLES
    program,      \* which source file runs: "extractor" or "part_000"
    MODE,         \* process.env.MODE (part_000 only)
    CONCURRENCY,  \* process.env.CONCURRENCY
    service,      \* which remote service answers: "rich" or "plain"
    mcList,       \* the identifiers read from the input file
    runPc,        \* position of run(): "start", "slice", "sleep", "done",
                  \* or "fatal" (run() rejected: process.exit(1))
    i,            \* run()'s loop variable (zero-based offset of the slice)
    inv,          \* one handleMC invocation per position of mcList
    settled,      \* the positions of the latest slice whose promise is
                  \* fulfilled, in the order of fulfilment
    rows,         \* run()'s row accumulator
    validUrls,    \* run()'s URL accumulator (part_000)
    written       \* the files written by run(), in order

vars == <<program, MODE, CONCURRENCY, service, mcList, runPc, i, inv, settled,
          rows, validUrls, written>>

----------------------------------------------------------------------------
(* Program constants.                                                      *)

MIN_AGE_DAYS == 180
MAX_RETRIES == 3
BACKOFF_BASE_MS == 2000
SEC_PER_DAY == 86400

(* Bounds of the batch specification.                                      *)
MaxMCs == 3
MaxConc == 2
MaxFaults == 3

(* Bounds of the CSV specification.                                        *)
MaxFields == 2
MaxFieldLen == 2

Labels == {"snapshot", "sms", "registration"}

----------------------------------------------------------------------------
(* Strings as sequences of words.                                          *)

\* String.prototype.toUpperCase on one word of the vocabulary used here.
UpperWord(w) ==
    CASE w \in {"record", "Record"} -> "RECORD"
      [] w \in {"not", "Not"} -> "NOT"
      [] w \in {"found", "Found"} -> "FOUND"
      [] w \in {"inactive", "Inactive"} -> "INACTIVE"
      [] w \in {"authorized", "Authorized"} -> "AUTHORIZED"
      [] w \in {"for", "For"} -> "FOR"
      [] w \in {"property", "Property"} -> "PROPERTY"
      [] w \in {"active", "Active"} -> "ACTIVE"
      [] OTHER -> w

toUpperCase(s) == [p \in 1..Len(s) |-> UpperWord(s[p])]

\* String.prototype.includes: needle occurs as a contiguous part of hay.
includes(hay, needle) ==
    \E p \in 0..(Len(hay) - Len(needle)) :
        SubSeq(hay, p + 1, p + Len(needle)) = needle

----------------------------------------------------------------------------
(* Number(text.replace(/,/g, '')) on a sequence of characters.  The       *)
(* alphabet of the numeric cells below has no exponent, hex prefix or      *)
(* "Infinity", so the decimal-literal branch of StringToNumber is the      *)
(* whole grammar here.                                                     *)

\* A JS number: NaN, or the decimal fraction num/den.
NaN == [nan |-> TRUE, num |-> 0, den |-> 1]
JsNum(n) == [nan |-> FALSE, num |-> n, den |-> 1]
Digits == {"0", "1", "2", "3", "4", "5", "6", "7", "8", "9"}

DigitVal(c) ==
    CASE c = "0" -> 0 [] c = "1" -> 1 [] c = "2" -> 2 [] c = "3" -> 3
      [] c = "4" -> 4 [] c = "5" -> 5 [] c = "6" -> 6 [] c = "7" -> 7
      [] c = "8" -> 8 [] c = "9" -> 9

replaceCommas(s) == SelectSeq(s, LAMBDA c : c # ",")

RECURSIVE DigitsValue(_)
DigitsValue(s) ==
    IF s = <<>> THEN 0
    ELSE DigitsValue(SubSeq(s, 1, Len(s) - 1)) * 10 + DigitVal(s[Len(s)])

RECURSIVE Pow10(_)
Pow10(n) == IF n = 0 THEN 1 ELSE 10 * Pow10(n - 1)

RECURSIVE Pow2(_)
Pow2(n) == IF n = 0 THEN 1 ELSE 2 * Pow2(n - 1)

Number(s) ==
    LET signed == s # <<>> /\ s[1] \in {"-", "+"}
        mag == IF signed THEN Tail(s) ELSE s
        dots == {p \in 1..Len(mag) : mag[p] = "."}
        digs == SelectSeq(mag, LAMBDA c : c # ".")
        frac == IF dots = {} THEN 0
                ELSE Len(mag) - (CHOOSE p \in dots : TRUE)
        sign == IF signed /\ s[1] = "-" THEN -1 ELSE 1
    IN IF s = <<>> THEN JsNum(0)
       ELSE IF Cardinality(dots) > 1 \/ digs = <<>>
               \/ \E p \in 1..Len(digs) : digs[p] \notin Digits
            THEN NaN
            ELSE [nan |-> FALSE, num |-> sign * DigitsValue(digs),
                  den |-> Pow10(frac)]

isNaN(x) == x.nan

\* x < n for a JS number x and an integer n; false when x is NaN.
JsLess(x, n) == ~x.nan /\ x.num < n * x.den

----------------------------------------------------------------------------
(* Dates.  The MCS-150 cell is empty, text that is no date, or a calendar  *)
(* date (its day number); new Date(text) is local midnight of that day in  *)
(* seconds, or NaN (Invalid Date).                                         *)

NoDate == [kind |-> "empty", day |-> 0]
BadDate == [kind |-> "text", day |-> 0]
DateOf(d) == [kind |-> "date", day |-> d]

Truthy(dateStr) == dateStr.kind # "empty"

NewDate(dateStr) ==
    IF dateStr.kind = "date" THEN JsNum(dateStr.day * SEC_PER_DAY) ELSE NaN

\* new Date(): the moment the check runs, in seconds.
NowOf(clock) == JsNum(clock.day * SEC_PER_DAY + clock.sec)

\* Math.abs(today - formDate)
AbsDiff(today, formDate) ==
    IF today.nan \/ formDate.nan THEN NaN
    ELSE IF today.num >= formDate.num THEN JsNum(today.num - formDate.num)
    ELSE JsNum(formDate.num - today.num)

\* Math.ceil(diffTime / (one day)), for diffTime >= 0
CeilDays(diffTime) ==
    IF diffTime.nan THEN NaN
    ELSE JsNum((diffTime.num + SEC_PER_DAY - 1) \div SEC_PER_DAY)

----------------------------------------------------------------------------
(* Pages.  One record shape for the three kinds of page: the snapshot page *)
(* carries the cells and the cross-reference link, the cross-reference     *)
(* page the registration link, the registration page the email.  marks    *)
(* are the X-marked rows of the page in page order, each with the section *)
(* whose table holds it and the text of its label cell.                   *)

Page(body, auth, date, pu, drv, link, email) ==
    [body |-> body, auth |-> auth, date |-> date, pu |-> pu, drv |-> drv,
     link |-> link, email |-> email, marks |-> <<>>]

\* a page with X-marked rows
Marked(page, marks) == [page EXCEPT !.marks = marks]

Mark(section, label) == [section |-> section, label |-> label]

NoPage == Page(<<"(none)">>, <<>>, NoDate, <<>>, <<>>, "none", "")

\* extractDataByHeader: the normalized text of the cell after the header,
\* '' when the header is absent.
extractDataByHeader(html, headerText) ==
    CASE headerText = "Operating Authority Status:" -> html.auth
      [] headerText = "MCS-150 Form Date:" -> html.date
      [] headerText = "Power Units:" -> html.pu
      [] headerText = "Drivers:" -> html.drv

\* The text of the whole document, as html.toUpperCase() sees it.
WholeText(html) == html.body \o <<"|">> \o html.auth

\* [...new Set(items)]: duplicates removed, order of first occurrence
RECURSIVE Dedup(_)
Dedup(items) ==
    IF items = <<>> THEN <<>>
    ELSE LET front == Dedup(SubSeq(items, 1, Len(items) - 1))
             last == items[Len(items)]
         IN IF \E p \in 1..Len(front) : front[p] = last
            THEN front ELSE Append(front, last)

\* part_000 getXMarkedItems(html): the labels of every X-marked row
getXMarkedItems(html) ==
    Dedup([p \in 1..Len(html.marks) |-> html.marks[p].label])

\* extractor.js getXMarkedItems(html, sectionHeader): the labels of the
\* X-marked rows in the table of the section
getXMarkedItemsOf(html, sectionHeader) ==
    LET inSection == SelectSeq(html.marks,
                               LAMBDA m : m.section = sectionHeader)
    IN Dedup([p \in 1..Len(inSection) |-> inSection[p].label])

\* items.includes(label)
Holds(items, label) == \E p \in 1..Len(items) : items[p] = label

\* part_000 operationType, a text of one word or the empty text
operationType(xMarkedItems) ==
    IF Holds(xMarkedItems, "Auth. For Hire") THEN <<"Property">>
    ELSE IF Holds(xMarkedItems, "Passengers") THEN <<"Passenger">>
    ELSE IF Holds(xMarkedItems, "Broker") THEN <<"Broker">>
    ELSE <<>>

\* extractor.js Operation_Type: operationTypes.join(', '), the text that
\* lists the labels
Operation_Type(html) == getXMarkedItemsOf(html, "Carrier Operation:")

----------------------------------------------------------------------------
(* The five predicates of handleMC, each as the code evaluates it.         *)

ExistenceOk(html) ==
    LET upperCaseHtml == toUpperCase(WholeText(html))
    IN ~(includes(upperCaseHtml, <<"RECORD", "NOT", "FOUND">>)
         \/ includes(upperCaseHtml, <<"RECORD", "INACTIVE">>))

\* mutant: only the positive marker is looked for
AuthorizationOkPositiveOnly(html) ==
    includes(toUpperCase(extractDataByHeader(html, "Operating Authority Status:")),
             <<"AUTHORIZED">>)

AuthorizationOk(html) ==
    LET authStatusText ==
            toUpperCase(extractDataByHeader(html, "Operating Authority Status:"))
    IN ~(includes(authStatusText, <<"NOT", "AUTHORIZED">>)
         \/ ~includes(authStatusText, <<"AUTHORIZED">>))

DatePresent(html) == Truthy(extractDataByHeader(html, "MCS-150 Form Date:"))

diffDaysOf(html, clock) ==
    LET formDate == NewDate(extractDataByHeader(html, "MCS-150 Form Date:"))
        today == NowOf(clock)
    IN CeilDays(AbsDiff(today, formDate))

AgeOk(html, clock) == ~JsLess(diffDaysOf(html, clock), MIN_AGE_DAYS)

AtLeastOne(text) ==
    LET n == Number(replaceCommas(text))
    IN ~(isNaN(n) \/ JsLess(n, 1))

FleetOk(html) == AtLeastOne(extractDataByHeader(html, "Power Units:"))

DriversOk(html) == AtLeastOne(extractDataByHeader(html, "Drivers:"))

\* mutant: the chain without its last check
EligibilityFilterWithoutDrivers(html, clock) ==
    IF ~ExistenceOk(html) THEN "not-found"
    ELSE IF ~AuthorizationOk(html) THEN "not-authorized"
    ELSE IF ~DatePresent(html) THEN "missing-date"
    ELSE IF ~AgeOk(html, clock) THEN "too-new"
    ELSE IF ~FleetOk(html) THEN "fleet"
    ELSE "pass"

\* The chain of handleMC after the snapshot fetch: the reason of the first
\* failing check, or "pass".
EligibilityFilter(html, clock) ==
    IF ~ExistenceOk(html) THEN "not-found"
    ELSE IF ~AuthorizationOk(html) THEN "not-authorized"
    ELSE IF ~DatePresent(html) THEN "missing-date"
    ELSE IF ~AgeOk(html, clock) THEN "too-new"
    ELSE IF ~FleetOk(html) THEN "fleet"
    ELSE IF ~DriversOk(html) THEN "drivers"
    ELSE "pass"

\* mutant: the mode name is misspelt
UrlsModeMisspelt(mode) == mode = "url"

\* MODE === 'urls'
UrlsMode(mode) == mode = "urls"

----------------------------------------------------------------------------
(* URLs.  A link found in a page is absent ("none"), resolvable ("rel") or *)
(* text that new URL(href, base) rejects with a TypeError ("bad").         *)

Url(valid, kind) == [valid |-> valid, kind |-> kind]
NoUrl == Url(FALSE, "none")

mcToSnapshotUrl(mc) == Url(TRUE, "snapshot")

\* new URL(href, base) throws
NewUrlThrows(href) == href = "bad"

\* new URL(href, base).href, when it does not throw
NewUrl(href, kind) == Url(TRUE, kind)

\* part_000: try { return new URL(href, base).href; } catch { return href; }
\* The raw href it returns on failure is no absolute URL: fetch rejects it.
absoluteUrl(href, kind) ==
    IF NewUrlThrows(href) THEN Url(FALSE, kind) ELSE NewUrl(href, kind)

----------------------------------------------------------------------------
(* One handleMC invocation.                                                *)
(*   pc      "idle" (not started), "fetch" (awaiting fetch()), "text"      *)
(*           (awaiting resp.text()), "backoff" (awaiting sleep(backoff)),  *)
(*           "pause" (awaiting sleep(300)), "returned", or "threw" (the    *)
(*           promise of handleMC rejected)                                 *)
(*   evaluated  the predicates handleMC evaluated, in order                *)
(*   console    what handleMC wrote to the console about its verdict       *)
(*   label   the fetchRetry call in progress (or about to start)           *)
(*   timer   the setTimeout of fetchWithTimeout is armed                   *)
(*   lastErr "error" once fetchRetry caught an attempt's error (which one  *)
(*           it caught decides nothing in the program but a log line)     *)
(*   log     per fetchRetry call, what it did: get, fail, wait(ms), ok,    *)
(*           and return or throw when it ended                             *)
(*   served  the body the remote service delivered to the call             *)
(*   got     the value the call returned (html, smsHtml, regHtml)          *)

Ev(e, ms) == [e |-> e, ms |-> ms]

NoClock == [day |-> 0, sec |-> 0]
NoResult == [valid |-> FALSE, url |-> FALSE, row |-> FALSE]

IdleInv ==
    [pc |-> "idle", label |-> "none", url |-> NoUrl, i |-> 0,
     timer |-> FALSE, lastErr |-> "none",
     log |-> [L \in Labels |-> <<>>],
     served |-> [L \in Labels |-> NoPage],
     got |-> [L \in Labels |-> NoPage],
     today |-> NoClock, reason |-> "", extracting |-> FALSE, pauses |-> 0,
     email |-> "", result |-> NoResult,
     evaluated |-> <<>>, console |-> "none"]

\* mutant: the loop runs once too often
RetryLoopCondOffByOne(n, tries) == n <= tries

\* fetchRetry's loop condition: i < tries
RetryLoopCond(n, tries) == n < tries

\* BACKOFF_BASE_MS * Math.pow(2, i)
Backoff(n) == BACKOFF_BASE_MS * Pow2(n)

\* the value fetchRetry returns: the text of the response
FetchRetryValue(body) == body

\* handleMC / extractAllData return: the locals of the call are gone
Return(r, res, reason) ==
    [r EXCEPT !.pc = "returned", !.label = "none", !.url = NoUrl, !.i = 0,
              !.lastErr = "none", !.result = res, !.reason = reason]

\* mutant: handleMC has no catch, the error leaves the invocation
HandleMCRethrows(r) == [r EXCEPT !.pc = "threw"]

\* the catch of handleMC: return { valid: false }
HandleMCCatch(r) ==
    Return([r EXCEPT !.console = "Fetch error"], NoResult, "fetch-failure")


\* extractAllData returns its row and handleMC { valid: true, row }
\* (part_000: { valid: true, url, row })
FinishExtract(r, email) ==
    Return([r EXCEPT !.email = email, !.console = "SAVED"],
           [valid |-> TRUE, url |-> program = "part_000", row |-> TRUE], "")

\* await sleep(300) before a deep-fetch hop
Pause(r, label, url) ==
    [r EXCEPT !.pc = "pause", !.label = label, !.url = url,
              !.pauses = @ + 1]

\* fetchWithTimeout up to its await: arm the timer, issue the GET
IssueGet(r) ==
    [r EXCEPT !.pc = "fetch", !.timer = TRUE,
              !.log[r.label] = Append(@, Ev("get", 0))]

\* line 55/62 of fetchRetry, and where the exception lands: the catch of
\* handleMC for the snapshot, the catch of extractAllData for a hop
FetchThrow(r) ==
    LET r1 == [r EXCEPT !.log[r.label] = Append(@, Ev("throw", 0))]
    IN IF r.label = "snapshot" THEN HandleMCCatch(r1)
       ELSE FinishExtract(r1, "")

\* the head of fetchRetry's loop
RetryLoop(r) ==
    IF RetryLoopCond(r.i, MAX_RETRIES) THEN IssueGet(r) ELSE FetchThrow(r)

\* fetchRetry(url, MAX_RETRIES, timeout, label)
FetchRetry(r, url, label) ==
    RetryLoop([r EXCEPT !.label = label, !.url = url, !.i = 0,
                        !.lastErr = "none"])

\* the finally of fetchWithTimeout and the catch of fetchRetry, up to
\* await sleep(backoff)
CatchAttempt(r) ==
    [r EXCEPT !.pc = "backoff", !.timer = FALSE, !.lastErr = "error",
              !.log[r.label] = @ \o <<Ev("fail", 0), Ev("wait", Backoff(r.i))>>]

\* extractAllData after the registration page arrived
AfterRegistration(r) == FinishExtract(r, r.got["registration"].email)

\* mutant: the registration page is fetched whatever the cross-reference
\* page contains
AfterSmsIgnoringLink(r) ==
    Pause(r, "registration", absoluteUrl(r.got["sms"].link, "registration"))

\* extractAllData after the cross-reference page arrived
AfterSms(r) ==
    LET href == r.got["sms"].link
    IN IF href = "none" THEN FinishExtract(r, "")
       ELSE IF program = "extractor"
            THEN IF NewUrlThrows(href) THEN FinishExtract(r, "")
                 ELSE Pause(r, "registration", NewUrl(href, "registration"))
            ELSE Pause(r, "registration", absoluteUrl(href, "registration"))

\* extractAllData up to its first await
ExtractAllData(r) ==
    LET href == r.got["snapshot"].link
        r1 == [r EXCEPT !.extracting = TRUE]
    IN IF href = "none" THEN FinishExtract(r1, "")
       ELSE IF program = "extractor"
            THEN IF NewUrlThrows(href) THEN HandleMCCatch(r1)
                 ELSE Pause(r1, "sms", NewUrl(href, "sms"))
            ELSE Pause(r1, "sms", absoluteUrl(href, "sms"))

\* the console.log of handleMC before it returns the verdict of the filter;
\* the not-found/inactive return logs nothing
ConsoleOf(verdict) ==
    CASE verdict = "not-authorized" -> "SKIPPING (Not Authorized)"
      [] verdict = "too-new" -> "SKIPPING (Newer than)"
      [] verdict = "missing-date" -> "SKIPPING (MCS-150 Date not found)"
      [] verdict = "fleet" -> "SKIPPING (PU < 1)"
      [] verdict = "drivers" -> "SKIPPING (Drivers < 1)"
      [] OTHER -> "none"

\* the predicates handleMC evaluated when the filter gave this verdict
ChecksRun(verdict) ==
    CASE verdict = "not-found" -> <<"existence">>
      [] verdict = "not-authorized" -> <<"existence", "authorization">>
      [] verdict \in {"missing-date", "too-new"} ->
            <<"existence", "authorization", "age">>
      [] verdict = "fleet" -> <<"existence", "authorization", "age", "fleet">>
      [] OTHER -> <<"existence", "authorization", "age", "fleet", "drivers">>

\* handleMC after the snapshot page arrived
AfterSnapshot(r, clock) ==
    LET html == r.got["snapshot"]
        verdict == EligibilityFilter(html, clock)
        dated == ExistenceOk(html) /\ AuthorizationOk(html) /\ DatePresent(html)
        r1 == [r EXCEPT !.today = IF dated THEN clock ELSE NoClock,
                        !.evaluated = ChecksRun(verdict),
                        !.console = ConsoleOf(verdict)]
    IN IF verdict # "pass" THEN Return(r1, NoResult, verdict)
       ELSE IF program = "part_000" /\ UrlsMode(MODE)
            THEN Return(r1, [valid |-> TRUE, url |-> TRUE, row |-> FALSE], "")
            ELSE ExtractAllData(r1)

\* return await resp.text(), and the caller's continuation
FetchReturn(r, body, clock) ==
    LET r1 == [r EXCEPT !.log[r.label] = @ \o <<Ev("ok", 0), Ev("return", 0)>>,
                        !.served[r.label] = body,
                        !.got[r.label] = FetchRetryValue(body)]
    IN CASE r.label = "snapshot" -> AfterSnapshot(r1, clock)
         [] r.label = "sms" -> AfterSms(r1)
         [] r.label = "registration" -> AfterRegistration(r1)

\* handleMC(mc) up to its first await
HandleMC(mc) == FetchRetry(IdleInv, mcToSnapshotUrl(mc), "snapshot")

----------------------------------------------------------------------------
(* The remote service and the clock.                                       *)

\* the moments at which new Date() may be read: midnight and noon of a day
Clocks == {[day |-> 1000, sec |-> 0], [day |-> 1000, sec |-> 43200]}

AgedDate(age) == DateOf(1000 - age)

Bodies ==
    {<<>>, <<"RECORD", "NOT", "FOUND">>, <<"Record", "Inactive">>,
     <<"NOT", "AUTHORIZED">>}
AuthTexts ==
    {<<>>, <<"AUTHORIZED", "FOR", "Property">>, <<"NOT", "AUTHORIZED">>,
     <<"Not", "Authorized">>}
DateTexts ==
    {NoDate, BadDate, AgedDate(30), AgedDate(179), AgedDate(180), AgedDate(200)}
FleetTexts ==
    {<<>>, <<"0">>, <<"1">>, <<"1", ",", "0", "0", "0">>, <<"1", ".", "5">>,
     <<"a", "b", "c">>}
DriverTexts ==
    {<<>>, <<"0">>, <<"1">>, <<"2", ".", "5">>, <<"-", "1">>}
Links == {"none", "rel", "bad"}

Eligible(link) ==
    Page(<<>>, <<"AUTHORIZED", "FOR", "Property">>, AgedDate(200), <<"1">>,
         <<"1">>, link, "")

\* the X-marked rows a snapshot page may have, in page order
MarkCells ==
    <<Mark("Operation Classification:", "Auth. For Hire"),
      Mark("Carrier Operation:", "Interstate"),
      Mark("Cargo Carried:", "Passengers"),
      Mark("Cargo Carried:", "Broker")>>

\* every selection of those rows, and one page that marks a row twice
MarkLists ==
    {SelectSeq(MarkCells, LAMBDA m : \E j \in S : MarkCells[j] = m) :
        S \in SUBSET (1..Len(MarkCells))}
    \cup {<<MarkCells[3], MarkCells[1], MarkCells[3]>>}

\* eligible pages with X-marked rows
MarkedPages == {Marked(Eligible("none"), m) : m \in MarkLists}

RichService ==
    [snapshot |-> {Page(b, a, d, pu, drv, l, "") :
                     b \in Bodies, a \in AuthTexts, d \in DateTexts,
                     pu \in FleetTexts, drv \in DriverTexts, l \in Links}
                  \cup MarkedPages,
     sms |-> {Page(<<>>, <<>>, NoDate, <<>>, <<>>, l, "") : l \in Links},
     registration |-> {Page(<<>>, <<>>, NoDate, <<>>, <<>>, "none", e) :
                         e \in {"", "a@b.co"}}]

PlainService ==
    [snapshot |-> {Eligible("rel"),
                   Page(<<>>, <<"NOT", "AUTHORIZED">>, AgedDate(200), <<"1">>,
                        <<"1">>, "none", "")},
     sms |-> {Page(<<>>, <<>>, NoDate, <<>>, <<>>, "none", "")},
     registration |-> {Page(<<>>, <<>>, NoDate, <<>>, <<>>, "none", "a@b.co")}]

\* the moments at which a run against the service may read the clock
ClocksOf(name) ==
    IF name = "rich" THEN Clocks ELSE {[day |-> 1000, sec |-> 43200]}

\* the pages the remote service may answer a GET of the given kind with
Serves(name, label) ==
    IF name = "rich" THEN RichService[label] ELSE PlainService[label]

----------------------------------------------------------------------------
(* The steps of one invocation: the completion of the promise it awaits.   *)

Running(k) == k \in DOMAIN inv /\ runPc = "slice"

\* the attempts that have failed so far in the run
TotalFails ==
    LET n[k \in 0..Len(mcList)] ==
            IF k = 0 THEN 0
            ELSE n[k - 1]
                 + Cardinality({<<L, p>> \in Labels \X (1..(3 * MAX_RETRIES)) :
                                  /\ p <= Len(inv[k].log[L])
                                  /\ inv[k].log[L][p].e = "fail"})
    IN n[Len(mcList)]

\* the "rich" service may fail any attempt; the "plain" one fails at most
\* MaxFaults attempts of a run
MayFail == service = "rich" \/ TotalFails < MaxFaults

Step(k, r) ==
    /\ inv' = [inv EXCEPT ![k] = r]
    /\ settled' = IF inv'[k].pc \in {"returned", "threw"}
                  THEN Append(settled, k) ELSE settled
    /\ UNCHANGED <<program, MODE, CONCURRENCY, service, mcList, runPc, i,
                   rows, validUrls, written>>

\* fetch() resolves with a 2xx response: finally { clearTimeout(id) },
\* fetchWithTimeout returns, fetchRetry awaits resp.text()
RespOk(k) ==
    /\ Running(k) /\ inv[k].pc = "fetch" /\ inv[k].url.valid
    /\ Step(k, [inv[k] EXCEPT !.pc = "text", !.timer = FALSE])

\* fetch() resolves with a non-2xx response: throw new Error(`HTTP ...`)
RespNotOk(k) ==
    /\ Running(k) /\ inv[k].pc = "fetch" /\ inv[k].url.valid
    /\ MayFail
    /\ Step(k, CatchAttempt(inv[k]))

\* fetch() rejects: a network error, or a TypeError for text that is no URL
FetchError(k) ==
    /\ Running(k) /\ inv[k].pc = "fetch"
    /\ MayFail \/ ~inv[k].url.valid
    /\ Step(k, CatchAttempt(inv[k]))

\* the timer fires: ctrl.abort(), fetch() rejects with an AbortError
Timeout(k) ==
    /\ Running(k) /\ inv[k].pc = "fetch" /\ inv[k].url.valid
    /\ inv[k].timer
    /\ MayFail
    /\ Step(k, CatchAttempt(inv[k]))

\* resp.text() resolves: fetchRetry returns the body to its caller
BodyDone(k) ==
    /\ Running(k) /\ inv[k].pc = "text"
    /\ \E body \in Serves(service, inv[k].label), clock \in ClocksOf(service) :
           Step(k, FetchReturn(inv[k], body, clock))

\* resp.text() rejects (the connection breaks while the body is read)
BodyError(k) ==
    /\ Running(k) /\ inv[k].pc = "text"
    /\ MayFail
    /\ Step(k, CatchAttempt(inv[k]))

\* sleep(backoff) resolves: i++, and the loop goes on or fetchRetry throws
BackoffDone(k) ==
    /\ Running(k) /\ inv[k].pc = "backoff"
    /\ Step(k, RetryLoop([inv[k] EXCEPT !.i = @ + 1]))

\* sleep(300) resolves: the hop's fetchRetry starts
PauseDone(k) ==
    /\ Running(k) /\ inv[k].pc = "pause"
    /\ Step(k, FetchRetry(inv[k], inv[k].url, inv[k].label))

----------------------------------------------------------------------------
(* run()                                                                   *)

Min(a, b) == IF a < b THEN a ELSE b

\* mutant: the slice holds one identifier more than CONCURRENCY
SliceOfOneMore(off) == (off + 1)..Min(off + CONCURRENCY + 1, Len(mcList))

\* the positions (1-based) of mcList.slice(off, off + CONCURRENCY)
SliceOf(off) == (off + 1)..Min(off + CONCURRENCY, Len(mcList))

\* slice.map(handleMC): every invocation of the slice runs to its first await
StartSlice(off) ==
    /\ i' = off
    /\ inv' = [k \in DOMAIN inv |->
                 IF k \in SliceOf(off) THEN HandleMC(mcList[k]) ELSE inv[k]]
    /\ settled' = <<>>
    /\ runPc' = "slice"
    /\ UNCHANGED <<rows, validUrls, written>>

\* the row extractAllData built for position k
RowOf(k) ==
    [pos |-> k, mc |-> mcList[k], email |-> inv[k].email,
     operationType |->
        IF program = "part_000"
        THEN operationType(getXMarkedItems(inv[k].got["snapshot"]))
        ELSE Operation_Type(inv[k].got["snapshot"])]

\* the url handleMC returned for position k
UrlOf(k) == [pos |-> k, mc |-> mcList[k]]

\* mutant: the join waits for the first result only (Promise.race)
AnySettled(off) == \E k \in SliceOf(off) : inv[k].pc = "returned"

\* Promise.all(slice.map(handleMC)) resolves: every invocation returned
AllSettled(off) == \A k \in SliceOf(off) : inv[k].pc = "returned"

\* Promise.all rejects as soon as one invocation rejects
AnyRejected(off) == \E k \in SliceOf(off) : inv[k].pc = "threw"

\* mutant: the accumulator is replaced by the results of the slice
AccumulateReplacing(acc, items) == items

\* for (const r of results) acc.push(...)
Accumulate(acc, items) == acc \o items

\* mutant: the loop variable is not advanced
NextOffsetStuck(off) == off

\* i += CONCURRENCY
NextOffset(off) == off + CONCURRENCY

\* the positions of the slice, in order
SlicePositions(off) == [p \in 1..Cardinality(SliceOf(off)) |-> off + p]

\* mutant: the results are taken in the order of fulfilment
ResultOrderAsSettled(off) == settled

\* the results of Promise.all: one for each position of the slice, in the
\* order of the slice
ResultOrder(off) == SlicePositions(off)

\* mutant: the CSV is written twice
OutputsCsvTwice ==
    <<[file |-> "csv", lines |-> rows], [file |-> "csv", lines |-> rows]>>

\* the files written after the loop
Outputs ==
    (IF Len(rows) > 0 THEN <<[file |-> "csv", lines |-> rows]>> ELSE <<>>)
    \o (IF program = "part_000" /\ UrlsMode(MODE) /\ Len(validUrls) > 0
        THEN <<[file |-> "urls", lines |-> validUrls]>> ELSE <<>>)

\* run() up to its first await; an empty list returns at once
RunStart ==
    /\ runPc = "start"
    /\ IF Len(mcList) = 0
       THEN /\ runPc' = "done"
            /\ UNCHANGED <<i, inv, settled, rows, validUrls, written>>
       ELSE StartSlice(0)
    /\ UNCHANGED <<program, MODE, CONCURRENCY, service, mcList>>

\* Promise.all settles.  Resolved: the results are appended in slice order,
\* then await sleep(Math.max(50, DELAY)).  Rejected: run() rejects and
\* run().catch exits the process.
SliceJoin ==
    /\ runPc = "slice"
    /\ AllSettled(i) \/ AnyRejected(i)
    /\ IF AnyRejected(i)
       THEN /\ runPc' = "fatal"
            /\ UNCHANGED <<rows, validUrls>>
       ELSE
       LET withRow == SelectSeq(ResultOrder(i),
                                 LAMBDA k : inv[k].result.valid /\ inv[k].result.row)
           withUrl == SelectSeq(ResultOrder(i),
                                 LAMBDA k : inv[k].result.valid /\ inv[k].result.url)
       IN /\ rows' = Accumulate(rows, [p \in 1..Len(withRow) |->
                                           RowOf(withRow[p])])
          /\ validUrls' =
                 IF program = "part_000"
                 THEN Accumulate(validUrls, [p \in 1..Len(withUrl) |->
                                               UrlOf(withUrl[p])])
                 ELSE validUrls
          /\ runPc' = "sleep"
    /\ UNCHANGED <<program, MODE, CONCURRENCY, service, mcList, i, inv,
                   settled, written>>

\* the inter-slice sleep resolves: i += CONCURRENCY, then the next slice
\* starts or the loop ends and the outputs are written
SleepDone ==
    /\ runPc = "sleep"
    /\ IF NextOffset(i) < Len(mcList)
       THEN StartSlice(NextOffset(i))
       ELSE /\ runPc' = "done"
            /\ written' = written \o Outputs
            /\ UNCHANGED <<i, inv, settled, rows, validUrls>>
    /\ UNCHANGED <<program, MODE, CONCURRENCY, service, mcList>>

----------------------------------------------------------------------------
Configs ==
    {<<"extractor", "both">>, <<"part_000", "both">>, <<"part_000", "urls">>}

InitRun ==
    /\ \E c \in Configs : program = c[1] /\ MODE = c[2]
    /\ runPc = "start"
    /\ i = 0
    /\ inv = [k \in 1..Len(mcList) |-> IdleInv]
    /\ settled = <<>>
    /\ rows = <<>>
    /\ validUrls = <<>>
    /\ written = <<>>

\* one identifier, every page the service may serve
Init ==
    /\ mcList = <<"MC-1">>
    /\ CONCURRENCY = 4
    /\ service = "rich"
    /\ InitRun

\* up to MaxMCs identifiers in slices of up to MaxConc, a few pages
InitBatch ==
    /\ \E n \in 0..MaxMCs :
           mcList = [k \in 1..n |-> IF k % 2 = 1 THEN "MC-1" ELSE "MC-2"]
    /\ CONCURRENCY \in 1..MaxConc
    /\ service = "plain"
    /\ InitRun

Next ==
    \/ RunStart
    \/ SliceJoin
    \/ SleepDone
    \/ \E k \in DOMAIN inv : RespOk(k)
    \/ \E k \in DOMAIN inv : RespNotOk(k)
    \/ \E k \in DOMAIN inv : FetchError(k)
    \/ \E k \in DOMAIN inv : Timeout(k)
    \/ \E k \in DOMAIN inv : BodyDone(k)
    \/ \E k \in DOMAIN inv : BodyError(k)
    \/ \E k \in DOMAIN inv : BackoffDone(k)
    \/ \E k \in DOMAIN inv : PauseDone(k)

Spec == Init /\ [][Next]_vars

SpecBatch == InitBatch /\ [][Next]_vars

----------------------------------------------------------------------------
(* The CSV text of run(): strings are sequences of characters.             *)

Alphabet == {"a", "\"", ",", "\n"}

\* the strings of at most n characters
RECURSIVE Strings(_)
Strings(n) ==
    IF n = 0 THEN {<<>>}
    ELSE LET shorter == Strings(n - 1)
         IN shorter \cup {Append(s, c) : s \in shorter, c \in Alphabet}

\* r[h] || '' and String(...): a string stays what it is, '' included
StringOrEmpty(v) == IF v = <<>> THEN <<>> ELSE v

\* mutant: embedded quotes are left alone
ReplaceQuotesNot(s) == s

\* .replace(/"/g, '""')
RECURSIVE ReplaceQuotes(_)
ReplaceQuotes(s) ==
    IF s = <<>> THEN <<>>
    ELSE (IF Head(s) = "\"" THEN <<"\"", "\"">> ELSE <<Head(s)>>)
         \o ReplaceQuotes(Tail(s))

\* `"${String(r[h] || '').replace(/"/g, '""')}"`
CsvField(v) == <<"\"">> \o ReplaceQuotes(StringOrEmpty(v)) \o <<"\"">>

\* Array.prototype.join
RECURSIVE Join(_, _)
Join(parts, sep) ==
    IF parts = <<>> THEN <<>>
    ELSE IF Len(parts) = 1 THEN parts[1]
    ELSE parts[1] \o sep \o Join(Tail(parts), sep)

\* headers.map(h => ...).join(',')
CsvLine(values) ==
    Join([h \in 1..Len(values) |-> CsvField(values[h])], <<",">>)

\* the header names, one for each field of a row
Headers(n) == [h \in 1..n |-> <<"a">>]

\* [headers.join(',')].concat(rows.map(...)): the lines of the file
CsvText(rs) ==
    <<Join(Headers(Len(rs[1].values)), <<",">>)>>
    \o [p \in 1..Len(rs) |-> CsvLine(rs[p].values)]

\* the end of run() with the text of the file: if (rows.length > 0) write
WriteCsv ==
    /\ runPc = "sleep"
    /\ ~(NextOffset(i) < Len(mcList))
    /\ runPc' = "done"
    /\ written' = IF Len(rows) > 0
                  THEN <<[file |-> "csv", lines |-> CsvText(rows)]>>
                  ELSE <<>>
    /\ UNCHANGED <<program, MODE, CONCURRENCY, service, mcList, i, inv,
                   settled, rows, validUrls>>

\* run() after its only slice was joined: one Accepted identifier whose row
\* holds up to MaxFields strings of up to MaxFieldLen characters
InitCsv ==
    /\ program \in {"extractor", "part_000"}
    /\ MODE = "both"
    /\ mcList = <<"MC-1">>
    /\ CONCURRENCY = 4
    /\ service = "plain"
    /\ runPc = "sleep"
    /\ i = 0
    /\ inv = <<[IdleInv EXCEPT !.pc = "returned", !.console = "SAVED",
                               !.result = [valid |-> TRUE,
                                           url |-> program = "part_000",
                                           row |-> TRUE]]>>
    /\ settled = <<1>>
    /\ \E n \in 1..MaxFields : \E values \in [1..n -> Strings(MaxFieldLen)] :
           rows = <<[pos |-> 1, mc |-> "MC-1", email |-> "", values |-> values]>>
    /\ validUrls = IF program = "part_000"
                   THEN <<[pos |-> 1, mc |-> "MC-1"]>> ELSE <<>>
    /\ written = <<>>

NextCsv == WriteCsv

SpecCsv == InitCsv /\ [][NextCsv]_vars


----------------------------------------------------------------------------
(* Properties.                                                             *)

Count(log, e) == Cardinality({p \in 1..Len(log) : log[p].e = e})

Last(log) == log[Len(log)]

Ended(log) == Len(log) > 0 /\ Last(log).e \in {"return", "throw"}

\* the snapshot page was fetched: fetchRetry returned it to handleMC
Fetched(k) ==
    Ended(inv[k].log["snapshot"]) /\ Last(inv[k].log["snapshot"]).e = "return"

Html(k) == inv[k].got["snapshot"]

\* C1: a fetchRetry call makes at most MAX_RETRIES GETs; it throws only
\* after exactly MAX_RETRIES GETs that all failed; it returns right after
\* its first successful attempt k, having made exactly k GETs, with the
\* body that attempt received; nothing is attempted after it ended.
FetchRetryAttempts ==
    \A k \in DOMAIN inv : \A L \in Labels :
        LET log == inv[k].log[L]
            gets == Count(log, "get")
            fails == Count(log, "fail")
            oks == Count(log, "ok")
        IN /\ gets <= MAX_RETRIES
           /\ \A p \in 1..Len(log) :
                  log[p].e \in {"return", "throw"} => p = Len(log)
           /\ oks >= 1 => Ended(log) /\ Last(log).e = "return"
           /\ fails = MAX_RETRIES /\ inv[k].pc # "backoff"
                  => Ended(log) /\ Last(log).e = "throw"
           /\ Ended(log) /\ Last(log).e = "throw"
                  => gets = MAX_RETRIES /\ fails = MAX_RETRIES /\ oks = 0
           /\ Ended(log) /\ Last(log).e = "return"
                  => /\ oks = 1
                     /\ log[Len(log) - 1].e = "ok"
                     /\ gets = fails + 1
                     /\ inv[k].got[L] = inv[k].served[L]
                     /\ inv[k].got[L] # NoPage

\* C1 witness: the snapshot came with the second attempt and the
\* cross-reference fetch was given up after MAX_RETRIES failed attempts.
FetchRetryAttemptsWitness ==
    \E k \in DOMAIN inv :
        /\ Fetched(k) /\ Count(inv[k].log["snapshot"], "get") = 2
        /\ Ended(inv[k].log["sms"]) /\ Last(inv[k].log["sms"]).e = "throw"
        /\ Count(inv[k].log["sms"], "get") = MAX_RETRIES

\* the zero-based index of the attempt whose failure precedes position p
AttemptIndexAt(log, p) == Count(SubSeq(log, 1, p), "get") - 1

\* C2: the wait after failed attempt i lasts BACKOFF_BASE_MS * 2^i, and
\* every wait is followed by a next GET: a call that gives up has waited
\* MAX_RETRIES - 1 times and throws right after its last failed attempt.
BackoffOnlyBeforeNextAttempt ==
    \A k \in DOMAIN inv : \A L \in Labels :
        LET log == inv[k].log[L]
        IN /\ \A p \in 1..Len(log) :
                  log[p].e = "wait"
                  => /\ log[p].ms = BACKOFF_BASE_MS * Pow2(AttemptIndexAt(log, p))
                     /\ p < Len(log) => log[p + 1].e = "get"
           /\ Ended(log) /\ Last(log).e = "throw"
                  => /\ Count(log, "wait") = MAX_RETRIES - 1
                     /\ log[Len(log) - 1].e = "fail"

\* C3: while an attempt is pending (the GET is issued and the body is not
\* yet read, nor has the attempt failed) its abort timer is armed.
AttemptTimerArmedUntilBodyRead ==
    \A k \in DOMAIN inv :
        inv[k].pc \in {"fetch", "text"} => inv[k].timer

\* the snapshot page of k passed the five predicates
PassedAll(k) ==
    /\ Fetched(k)
    /\ ExistenceOk(Html(k))
    /\ AuthorizationOk(Html(k))
    /\ DatePresent(Html(k))
    /\ AgeOk(Html(k), inv[k].today)
    /\ FleetOk(Html(k))
    /\ DriversOk(Html(k))

FullMode == ~(program = "part_000" /\ MODE = "urls")

\* C4: in full mode, an identifier whose snapshot page passed the five
\* predicates is Accepted whatever happened in the deep-fetch chain.
DeepFetchNeverRejects ==
    \A k \in DOMAIN inv :
        FullMode /\ inv[k].pc = "returned" /\ PassedAll(k)
            => inv[k].result.valid

\* C5: extraction has started, or a row exists, for an identifier only if
\* its snapshot page was fetched and passed existence, authorization,
\* minimum age, minimum fleet size and minimum driver count.
ExtractionOnlyAfterFilter ==
    /\ \A k \in DOMAIN inv :
           inv[k].extracting \/ inv[k].result.row \/ inv[k].pauses > 0
               \/ inv[k].log["sms"] # <<>>
               => PassedAll(k)
    /\ \A p \in 1..Len(rows) : PassedAll(rows[p].pos)

\* C5 witness: a row was appended for an identifier whose extraction went
\* through the deep-fetch chain.
ExtractionOnlyAfterFilterWitness ==
    /\ Len(rows) = 1
    /\ inv[rows[1].pos].extracting
    /\ inv[rows[1].pos].log["registration"] # <<>>

HasNotFoundMarker(html) ==
    \/ includes(toUpperCase(WholeText(html)), <<"RECORD", "NOT", "FOUND">>)
    \/ includes(toUpperCase(WholeText(html)), <<"RECORD", "INACTIVE">>)

Rejected(k) ==
    /\ ~inv[k].result.valid
    /\ ~inv[k].result.row
    /\ ~inv[k].extracting
    /\ \A p \in 1..Len(rows) : rows[p].pos # k

\* C6 as stated: a page with a not-found/inactive marker or with "NOT
\* AUTHORIZED" anywhere in it is Rejected and gets no row.
MarkerAnywhereRejects ==
    \A k \in DOMAIN inv :
        /\ inv[k].pc = "returned" /\ Fetched(k)
        /\ \/ HasNotFoundMarker(Html(k))
           \/ includes(toUpperCase(WholeText(Html(k))), <<"NOT", "AUTHORIZED">>)
        => Rejected(k)

\* C6 amended: a page with a not-found/inactive marker anywhere in it, or
\* with "NOT AUTHORIZED" (any letter case) in its Operating Authority
\* Status field, is Rejected and gets no row, whatever its other fields.
MarkerRejects ==
    \A k \in DOMAIN inv :
        /\ inv[k].pc = "returned" /\ Fetched(k)
        /\ \/ HasNotFoundMarker(Html(k))
           \/ includes(toUpperCase(Html(k).auth), <<"NOT", "AUTHORIZED">>)
        => Rejected(k)

\* C6 witness: the run ended after rejecting a page whose status cell reads
\* "Not Authorized" and whose other fields are those of an eligible carrier.
MarkerRejectsWitness ==
    \E k \in DOMAIN inv :
        /\ runPc = "done" /\ Fetched(k) /\ Rejected(k)
        /\ Html(k).auth = <<"Not", "Authorized">>
        /\ Html(k).body = <<>>
        /\ Html(k).date = AgedDate(180)
        /\ FleetOk(Html(k)) /\ DriversOk(Html(k))

\* the whole days elapsed between the form date and the check
AgeInDays(html, clock) ==
    (NowOf(clock).num - NewDate(html.date).num) \div SEC_PER_DAY

\* the age check was reached with a calendar date in the field
AgeChecked(k) ==
    /\ inv[k].pc = "returned" /\ Fetched(k)
    /\ ExistenceOk(Html(k)) /\ AuthorizationOk(Html(k))
    /\ Html(k).date.kind = "date"

\* C7: at whatever time of day the check runs, a form date of age
\* MIN_AGE_DAYS passes the minimum-age predicate and one of age
\* MIN_AGE_DAYS - 1 is Rejected as too new.
AgeBoundary ==
    \A k \in DOMAIN inv :
        AgeChecked(k)
        => /\ AgeInDays(Html(k), inv[k].today) = MIN_AGE_DAYS
                => inv[k].reason # "too-new"
           /\ AgeInDays(Html(k), inv[k].today) = MIN_AGE_DAYS - 1
                => inv[k].reason = "too-new" /\ Rejected(k)

\* C8: a page whose form-date field is empty or is no calendar date is
\* Rejected before the fleet-size and driver predicates, without extraction
\* and without a row.
MissingOrBadDateRejects ==
    \A k \in DOMAIN inv :
        /\ inv[k].pc = "returned" /\ Fetched(k)
        /\ Html(k).date.kind \in {"empty", "text"}
        => /\ Rejected(k)
           /\ inv[k].reason \in {"not-found", "not-authorized", "missing-date"}

\* the text, thousands separators removed, is a non-negative integer >= 1
IntegerAtLeastOne(text) ==
    LET t == SelectSeq(text, LAMBDA c : c # ",")
    IN /\ t # <<>>
       /\ \A p \in 1..Len(t) : t[p] \in Digits
       /\ DigitsValue(t) >= 1

\* the fleet-size check was reached
FleetChecked(k) ==
    /\ inv[k].pc = "returned" /\ Fetched(k)
    /\ ExistenceOk(Html(k)) /\ AuthorizationOk(Html(k))
    /\ DatePresent(Html(k)) /\ AgeOk(Html(k), inv[k].today)

\* C9: the fleet-size predicate, and likewise the driver-count predicate,
\* passes exactly when the field without thousands separators is a
\* non-negative integer >= 1.
CountPredicates ==
    \A k \in DOMAIN inv :
        /\ FleetChecked(k)
              => (inv[k].reason = "fleet" <=> ~IntegerAtLeastOne(Html(k).pu))
        /\ FleetChecked(k) /\ inv[k].reason # "fleet"
              => (inv[k].reason = "drivers" <=> ~IntegerAtLeastOne(Html(k).drv))

\* the positions whose results run() has consumed
Joined ==
    IF runPc \in {"sleep", "done"} /\ Len(mcList) > 0
    THEN 1..Min(i + CONCURRENCY, Len(mcList))
    ELSE 1..i

\* C10: in urls mode the only network activity of an identifier is its
\* snapshot fetch (at most MAX_RETRIES GETs); extractAllData is never
\* called, no hop is fetched, no politeness pause is made, no row is
\* appended; the URL list holds the source URLs of the accepted
\* identifiers and nothing else.
UrlsModeOnlyCollectsUrls ==
    program = "part_000" /\ MODE = "urls"
    => /\ rows = <<>>
       /\ \A k \in DOMAIN inv :
              /\ Count(inv[k].log["snapshot"], "get") <= MAX_RETRIES
              /\ inv[k].log["sms"] = <<>>
              /\ inv[k].log["registration"] = <<>>
              /\ inv[k].pauses = 0
              /\ ~inv[k].extracting
              /\ ~inv[k].result.row
              /\ inv[k].pc # "pause"
              /\ inv[k].result.valid => inv[k].result.url /\ PassedAll(k)
       /\ validUrls =
              LET acc == SelectSeq([p \in 1..Len(mcList) |-> p],
                                   LAMBDA k : k \in Joined /\ inv[k].result.valid)
              IN [p \in 1..Len(acc) |-> UrlOf(acc[p])]
       /\ \A p \in 1..Len(written) : written[p].file = "urls"

\* C10 witness: a run in urls mode ended with one accepted URL, written to
\* the URL list file.
UrlsModeOnlyCollectsUrlsWitness ==
    /\ program = "part_000" /\ MODE = "urls"
    /\ runPc = "done"
    /\ Len(validUrls) = 1
    /\ Len(written) = 1
    /\ written[1].lines = validUrls

(***************************************************************************)
(* The slices of run()                                                     *)
(***************************************************************************)

\* the invocations a step starts
StartedNow == {k \in DOMAIN inv : inv[k].pc = "idle" /\ inv'[k].pc # "idle"}

\* the invocations that have not returned
InFlight == {k \in DOMAIN inv : inv[k].pc \notin {"idle", "returned", "threw"}}

\* the result of invocation k has been appended to the accumulators
Appended(k) ==
    /\ (inv[k].result.row => \E p \in 1..Len(rows) : rows[p].pos = k)
    /\ (program = "part_000" /\ inv[k].result.url
          => \E p \in 1..Len(validUrls) : validUrls[p].pos = k)

\* C11: the invocations a step starts are one contiguous slice of
\* CONCURRENCY identifiers (the last slice may be shorter), the slices start
\* in input order, and a slice starts only in the step that ends the pause
\* after the slice before it (or begins the run), when every invocation of
\* the earlier slices has returned and its result has been appended.
SliceBarrier ==
    [][StartedNow # {} =>
         \E s \in 0..Len(mcList) :
            /\ StartedNow = (s * CONCURRENCY + 1)..
                               Min((s + 1) * CONCURRENCY, Len(mcList))
            /\ runPc = IF s = 0 THEN "start" ELSE "sleep"
            /\ runPc' = "slice"
            /\ \A j \in 1..(s * CONCURRENCY) :
                  inv[j].pc = "returned" /\ Appended(j)
            /\ \A j \in DOMAIN inv :
                  j > s * CONCURRENCY => inv[j].pc = "idle"]_vars

\* a second slice is running, the first has been joined with a row, and
\* its short last slice holds one identifier
SliceBarrierWitness ==
    /\ runPc = "slice"
    /\ CONCURRENCY = 2
    /\ i = 2
    /\ Len(mcList) = 3
    /\ Len(rows) > 0
    /\ inv[3].pc \notin {"idle", "returned"}

\* C12: at no time are more than CONCURRENCY invocations of handleMC in
\* flight.
InFlightBounded == Cardinality(InFlight) <= CONCURRENCY

\* two invocations of one slice are in flight at once, one waiting out a
\* backoff and the other a politeness pause
InFlightBoundedWitness ==
    /\ CONCURRENCY = 2
    /\ Cardinality(InFlight) = 2
    /\ \E k \in InFlight : inv[k].pc = "backoff"
    /\ \E k \in InFlight : inv[k].pc = "pause"

(***************************************************************************)
(* Failures and the boundary of handleMC                                   *)
(***************************************************************************)

\* a fetchRetry call of invocation k ended by throwing
Exhausted(k, L) == Ended(inv[k].log[L]) /\ Last(inv[k].log[L]).e = "throw"

\* the verdict the page and the fetch outcomes of invocation k alone decide
OwnVerdict(k) ==
    /\ PassedAll(k)
    /\ ~(program = "extractor" /\ FullMode /\ NewUrlThrows(Html(k).link))

\* run() never rejects and no invocation of handleMC rejects; when the run
\* has ended every identifier has its verdict, and a run without Accepted
\* identifiers ends with no row and no CSV file
RunCompletes ==
    /\ runPc # "fatal"
    /\ \A k \in DOMAIN inv : inv[k].pc # "threw"
    /\ runPc = "done" => \A k \in DOMAIN inv : inv[k].pc = "returned"
    /\ runPc = "done" /\ (\A k \in DOMAIN inv : ~inv[k].result.valid)
          => rows = <<>> /\ \A p \in 1..Len(written) : written[p].file # "csv"

\* C13 as stated: whatever fails inside handleMC (a fetch of the snapshot or
\* of a deep-fetch hop exhausted its attempts), handleMC returns a Rejected
\* value; the verdict of every identifier is decided by its own page and
\* fetches only; the run completes.
AnyFailureRejects ==
    /\ RunCompletes
    /\ \A k \in DOMAIN inv :
          inv[k].pc = "returned"
             => /\ inv[k].result.valid = OwnVerdict(k)
                /\ (\E L \in Labels : Exhausted(k, L)) => ~inv[k].result.valid

\* C13 amended: a failure that reaches handleMC (the snapshot fetch
\* exhausted its attempts) is returned as a Rejected value, a failure inside
\* the deep-fetch chain is absorbed there and leaves the identifier
\* Accepted; no invocation and no run rejects; the verdict of every
\* identifier is decided by its own page and fetches only; the run completes
\* also with zero rows.
FailureStaysInside ==
    /\ RunCompletes
    /\ \A k \in DOMAIN inv :
          inv[k].pc = "returned"
             => /\ inv[k].result.valid = OwnVerdict(k)
                /\ Exhausted(k, "snapshot") => ~inv[k].result.valid /\ Rejected(k)
                /\ (\E L \in Labels \ {"snapshot"} : Exhausted(k, L))
                      => inv[k].result.valid

\* the run ended; the snapshot fetch of the first identifier was exhausted,
\* the second identifier of its slice and the identifier of the next slice
\* were Accepted
FailureStaysInsideWitness ==
    /\ runPc = "done"
    /\ CONCURRENCY = 2
    /\ Len(mcList) = 3
    /\ Exhausted(1, "snapshot") /\ ~inv[1].result.valid
    /\ inv[2].result.valid
    /\ inv[3].result.valid
    /\ Len(rows) = 2

(***************************************************************************)
(* The accumulator and the output files                                    *)
(***************************************************************************)

\* the number of rows the accumulator holds for position k
RowsFor(acc, k) == Cardinality({p \in 1..Len(acc) : acc[p].pos = k})

\* C14: every step leaves the rows already appended in place and unchanged,
\* and when the run finishes the row list holds exactly one row for each
\* position whose identifier was Accepted in full mode, none for any other,
\* each row being the row of its own invocation.
AccumulatorExact ==
    [][/\ Len(rows') >= Len(rows)
       /\ \A p \in 1..Len(rows) : rows'[p] = rows[p]
       /\ runPc' = "done" =>
             /\ \A k \in DOMAIN inv' :
                   RowsFor(rows', k) =
                      IF inv'[k].result.valid /\ FullMode THEN 1 ELSE 0
             /\ \A p \in 1..Len(rows') :
                   /\ rows'[p].pos \in DOMAIN inv'
                   /\ rows'[p].mc = mcList'[rows'[p].pos]
                   /\ rows'[p].email = inv'[rows'[p].pos].email]_vars

\* a finished run of two slices: the rows of the first and of the third
\* identifier, the second identifier was Rejected
AccumulatorExactWitness ==
    /\ runPc = "done"
    /\ FullMode
    /\ CONCURRENCY = 2
    /\ Len(mcList) = 3
    /\ ~inv[2].result.valid
    /\ Len(rows) = 2
    /\ rows[1].pos = 1
    /\ rows[2].pos = 3

(***************************************************************************)
(* Termination                                                             *)
(***************************************************************************)

\* what invocation k has done so far: its logged events, its pauses, and
\* whether a response or its verdict has arrived
InvocationProgress(k) ==
    2 * (Len(inv[k].log["snapshot"]) + Len(inv[k].log["sms"])
         + Len(inv[k].log["registration"]) + inv[k].pauses)
    + (IF inv[k].pc = "text" THEN 1 ELSE 0)
    + (IF inv[k].pc = "returned" THEN 1 ELSE 0)

RECURSIVE SumProgress(_)
SumProgress(n) == IF n = 0 THEN 0 ELSE InvocationProgress(n) + SumProgress(n - 1)

\* what the run has done so far
Progress ==
    3 * i
    + (CASE runPc = "start" -> 0 [] runPc = "slice" -> 1
         [] runPc = "sleep" -> 2 [] OTHER -> 3)
    + SumProgress(Len(inv))

\* no run does more than this: three fetchRetry calls of at most MAX_RETRIES
\* attempts (get, fail, wait) and a throw, two pauses and a verdict for each
\* identifier, and three positions of run() for each offset
ProgressBound ==
    Len(mcList) * (2 * (3 * (3 * MAX_RETRIES + 1) + 2) + 1)
    + 3 * Len(mcList) + 3

\* C15: until the run has ended a step is always possible (every pending
\* await can be settled), every step advances a measure of progress that is
\* bounded for the given list, so the run ends once every await is settled;
\* when it has ended every identifier of the input has its verdict and the
\* loop variable stands on the last slice (no slice skipped); an invocation
\* that returned is never started again (no slice processed twice).
RunTerminates ==
    /\ [](runPc = "done" \/ ENABLED Next)
    /\ [](Progress <= ProgressBound)
    /\ [][Progress' > Progress]_vars
    /\ [](runPc = "done" =>
             /\ \A k \in DOMAIN inv : inv[k].pc = "returned"
             /\ Len(mcList) > 0 =>
                   i < Len(mcList) /\ i + CONCURRENCY >= Len(mcList))
    /\ [][\A k \in DOMAIN inv :
             inv[k].pc = "returned" => inv'[k] = inv[k]]_vars

\* a run of two slices over three identifiers has ended after a fetch
\* exhausted its attempts on the way
RunTerminatesWitness ==
    /\ runPc = "done"
    /\ Len(mcList) = 3
    /\ CONCURRENCY = 2
    /\ i = 2
    /\ \A k \in DOMAIN inv : inv[k].pc = "returned"
    /\ \E k \in DOMAIN inv : Exhausted(k, "snapshot")

\* the number of files of one kind among the files written
FilesOf(files, kind) ==
    Cardinality({p \in 1..Len(files) : files[p].file = kind})

\* the lines of a file hold an entry for invocation k
HasLine(f, k) == \E q \in 1..Len(f.lines) : f.lines[q].pos = k

\* C16: a step that writes an output file is the step that ends the run,
\* nothing was written before it, and at that moment every invocation of
\* every slice has returned; it writes each file at most once, the CSV with
\* the row of every identifier Accepted in full mode, the URL list with the
\* entry of every Accepted identifier.
OutputsOnceAtEnd ==
    [][written' # written =>
         /\ written = <<>>
         /\ runPc # "done" /\ runPc' = "done"
         /\ \A k \in DOMAIN inv : inv[k].pc = "returned"
         /\ FilesOf(written', "csv") <= 1
         /\ FilesOf(written', "urls") <= 1
         /\ \A p \in 1..Len(written') :
               /\ written'[p].file \in {"csv", "urls"}
               /\ written'[p].file = "csv" =>
                     /\ written'[p].lines = rows'
                     /\ \A k \in DOMAIN inv :
                           inv[k].result.valid /\ FullMode
                              => HasLine(written'[p], k)
               /\ written'[p].file = "urls" =>
                     /\ written'[p].lines = validUrls'
                     /\ \A k \in DOMAIN inv :
                           inv[k].result.valid => HasLine(written'[p], k)]_vars

\* the one CSV of a finished run holds a row of the first slice and a row
\* of the second
OutputsOnceAtEndWitness ==
    /\ runPc = "done"
    /\ CONCURRENCY = 2
    /\ Len(written) = 1
    /\ written[1].file = "csv"
    /\ Len(written[1].lines) = 2
    /\ written[1].lines[1].pos = 2
    /\ written[1].lines[2].pos = 3

(***************************************************************************)
(* The order of the filter and the report of a rejection                   *)
(***************************************************************************)

FilterOrder == <<"existence", "authorization", "age", "fleet", "drivers">>

\* predicate n of the order fails on the page
Fails(n, html, clock) ==
    CASE n = 1 -> ~ExistenceOk(html)
      [] n = 2 -> ~AuthorizationOk(html)
      [] n = 3 -> ~(DatePresent(html) /\ AgeOk(html, clock))
      [] n = 4 -> ~FleetOk(html)
      [] n = 5 -> ~DriversOk(html)

\* the position of the first failing predicate, 0 when none fails
FirstFailing(html, clock) ==
    IF \E n \in 1..5 : Fails(n, html, clock)
    THEN CHOOSE n \in 1..5 :
            /\ Fails(n, html, clock)
            /\ \A m \in 1..(n - 1) : ~Fails(m, html, clock)
    ELSE 0

\* the reason a console message of handleMC names
ReasonNamed(msg) ==
    CASE msg = "SKIPPING (Not Authorized)" -> "authorization"
      [] msg \in {"SKIPPING (Newer than)",
                  "SKIPPING (MCS-150 Date not found)"} -> "age"
      [] msg = "SKIPPING (PU < 1)" -> "fleet"
      [] msg = "SKIPPING (Drivers < 1)" -> "drivers"
      [] msg = "Fetch error" -> "fetch-failure"
      [] OTHER -> "nothing"

\* C17: an identifier rejected by the filter had the predicates evaluated
\* in the fixed order up to and including the first failing one and no
\* further, no hop was fetched and no pause made for it, and the console
\* names the reason of that first failing predicate; an identifier whose
\* snapshot fetch failed is reported with the fetch-failure reason.
RejectionsReported ==
    \A k \in DOMAIN inv :
        inv[k].pc = "returned" /\ ~inv[k].result.valid /\ ~PassedAll(k)
           => IF ~Fetched(k)
              THEN /\ inv[k].evaluated = <<>>
                   /\ ReasonNamed(inv[k].console) = "fetch-failure"
              ELSE LET f == FirstFailing(Html(k), inv[k].today)
                   IN /\ f > 0
                      /\ inv[k].evaluated = SubSeq(FilterOrder, 1, f)
                      /\ inv[k].log["sms"] = <<>>
                      /\ inv[k].log["registration"] = <<>>
                      /\ inv[k].pauses = 0
                      /\ ReasonNamed(inv[k].console) = FilterOrder[f]

(***************************************************************************)
(* The CSV round trip                                                      *)
(***************************************************************************)

\* A reader of one CSV line, field by field: a quote opens a quoted field,
\* inside it two quotes stand for one and a single quote closes it; outside
\* of quotes a comma ends the field.  It yields the fields read, or <<>>
\* with no field at all for a line that ends inside a quoted field.
RECURSIVE ReadCsv(_, _, _, _, _)
ReadCsv(line, pos, cur, quoted, fields) ==
    IF pos > Len(line)
    THEN IF quoted THEN <<>> ELSE Append(fields, cur)
    ELSE IF quoted
    THEN IF line[pos] = "\""
         THEN IF pos < Len(line) /\ line[pos + 1] = "\""
              THEN ReadCsv(line, pos + 2, Append(cur, "\""), TRUE, fields)
              ELSE ReadCsv(line, pos + 1, cur, FALSE, fields)
         ELSE ReadCsv(line, pos + 1, Append(cur, line[pos]), TRUE, fields)
    ELSE IF line[pos] = "\""
         THEN ReadCsv(line, pos + 1, cur, TRUE, fields)
         ELSE IF line[pos] = ","
              THEN ReadCsv(line, pos + 1, <<>>, FALSE, Append(fields, cur))
              ELSE ReadCsv(line, pos + 1, Append(cur, line[pos]), FALSE, fields)

ParseCsvLine(line) == ReadCsv(line, 1, <<>>, FALSE, <<>>)

\* C18: every line the CSV holds for a row, read back field by field with
\* quote doubling, gives as many fields as the row has and the strings of
\* the row, whatever quotes, commas and newlines they contain.
CsvRoundTrip ==
    \A p \in 1..Len(written) :
        written[p].file = "csv" =>
            /\ Len(written[p].lines) = Len(rows) + 1
            /\ \A q \in 1..Len(rows) :
                  LET parsed == ParseCsvLine(written[p].lines[q + 1])
                  IN /\ Len(parsed) = Len(rows[q].values)
                     /\ parsed = rows[q].values

\* a written row of two fields, one with a quote followed by a comma, the
\* other with a newline
CsvRoundTripWitness ==
    /\ Len(written) = 1
    /\ rows[1].values = <<<<"\"", ",">>, <<"\n", "a">>>>
    /\ written[1].lines[2] =
          <<"\"", "\"", "\"", ",", "\"", ",", "\"", "\n", "a", "\"">>

(***************************************************************************)
(* The deep-fetch chain                                                    *)
(***************************************************************************)

\* the fetchRetry call of a hop has started
HopStarted(k, L) == inv[k].log[L] # <<>>

\* the invocation is in the politeness pause before hop L
Pausing(k, L) == inv[k].pc = "pause" /\ inv[k].label = L

\* the number of fetchRetry calls made for a hop
Calls(k, L) ==
    Cardinality({p \in 1..Len(inv[k].log[L]) :
                    inv[k].log[L][p].e = "get"
                    /\ (p = 1 \/ inv[k].log[L][p - 1].e \in {"return", "throw"})})

\* C19: the chain fetches at most the cross-reference page and then the
\* registration page, each by one fetchRetry call; without a
\* cross-reference link in the snapshot page nothing more is fetched and the
\* email stays empty; the registration page is fetched only after the
\* cross-reference page was returned and has a registration link; every
\* hop was preceded by one politeness pause; the email is the one of the
\* registration page that was returned, or empty.
DeepFetchChain ==
    \A k \in DOMAIN inv :
        /\ Calls(k, "sms") <= 1 /\ Calls(k, "registration") <= 1
        /\ HopStarted(k, "sms") \/ Pausing(k, "sms")
              => /\ Fetched(k) /\ inv[k].extracting
                 /\ Html(k).link # "none"
                 /\ ~HopStarted(k, "registration") \/ Ended(inv[k].log["sms"])
        /\ Fetched(k) /\ Html(k).link = "none"
              => /\ ~HopStarted(k, "sms") /\ ~HopStarted(k, "registration")
                 /\ inv[k].pauses = 0
                 /\ inv[k].email = ""
        /\ HopStarted(k, "registration") \/ Pausing(k, "registration")
              => /\ Ended(inv[k].log["sms"])
                 /\ Last(inv[k].log["sms"]).e = "return"
                 /\ inv[k].got["sms"].link # "none"
        /\ inv[k].pauses =
              (IF HopStarted(k, "sms") THEN 1 ELSE 0)
              + (IF HopStarted(k, "registration") THEN 1 ELSE 0)
              + (IF inv[k].pc = "pause" THEN 1 ELSE 0)
        /\ inv[k].email # ""
              => /\ Ended(inv[k].log["registration"])
                 /\ Last(inv[k].log["registration"]).e = "return"
                 /\ inv[k].email = inv[k].got["registration"].email

\* both hops were made, the first after a failed attempt, and the email of
\* the registration page was taken
DeepFetchChainWitness ==
    \E k \in DOMAIN inv :
        /\ inv[k].pc = "returned"
        /\ inv[k].result.row
        /\ Count(inv[k].log["sms"], "fail") = 1
        /\ inv[k].pauses = 2
        /\ inv[k].email # ""

(***************************************************************************)
(* The operation category                                                  *)
(***************************************************************************)

\* the labels of the X-marked rows of a page
MarkedLabels(html) == {html.marks[p].label : p \in 1..Len(html.marks)}

\* the category the priority rule gives a set of marked labels
CategoryByPriority(labels) ==
    IF "Auth. For Hire" \in labels THEN <<"Property">>
    ELSE IF "Passengers" \in labels THEN <<"Passenger">>
    ELSE IF "Broker" \in labels THEN <<"Broker">>
    ELSE <<>>

\* C20: the operation category of every row is the one the priority rule
\* gives the marked labels of its snapshot page, and the row of a page whose
\* authority status is "AUTHORIZED FOR PROPERTY" has the category Property.
OperationCategoryByPriority ==
    \A p \in 1..Len(rows) :
        LET html == Html(rows[p].pos)
        IN /\ rows[p].operationType = CategoryByPriority(MarkedLabels(html))
           /\ toUpperCase(html.auth) = <<"AUTHORIZED", "FOR", "PROPERTY">>
                 => rows[p].operationType = <<"Property">>

(***************************************************************************)
(* The order of the results                                                *)
(***************************************************************************)

\* the entries of an accumulator stand in input order and each belongs to
\* the identifier at its position of the input list
InInputOrder(acc) ==
    /\ \A p \in 1..Len(acc) :
          acc[p].pos \in DOMAIN inv /\ acc[p].mc = mcList[acc[p].pos]
    /\ \A p \in 1..(Len(acc) - 1) : acc[p].pos < acc[p + 1].pos

\* the positions an accumulator holds
PositionsOf(acc) == {acc[p].pos : p \in 1..Len(acc)}

\* C21: whatever the order in which the invocations of a slice returned,
\* the rows and the URLs accumulated so far, and the lines of every file
\* written, are the accepted identifiers of the slices joined so far in
\* input order; in part_000 run in full mode the p-th URL and the p-th row
\* belong to the same position of the input.
ResultsInInputOrder ==
    /\ InInputOrder(rows)
    /\ InInputOrder(validUrls)
    /\ PositionsOf(rows) =
          {k \in Joined : inv[k].result.valid /\ inv[k].result.row}
    /\ program = "part_000" =>
          PositionsOf(validUrls) =
             {k \in Joined : inv[k].result.valid /\ inv[k].result.url}
    /\ \A f \in 1..Len(written) : InInputOrder(written[f].lines)
    /\ program = "part_000" /\ FullMode =>
          /\ Len(validUrls) = Len(rows)
          /\ \A p \in 1..Len(rows) : validUrls[p].pos = rows[p].pos

\* the second identifier of a slice returned before the first one, both
\* were Accepted, and the joined rows and URLs stand first, second
ResultsInInputOrderWitness ==
    /\ runPc \in {"sleep", "done"}
    /\ program = "part_000"
    /\ CONCURRENCY = 2
    /\ settled = <<2, 1>>
    /\ Len(rows) = 2 /\ rows[1].pos = 1 /\ rows[2].pos = 2
    /\ Len(validUrls) = 2 /\ validUrls[1].pos = 1 /\ validUrls[2].pos = 2

(***************************************************************************)
(* The two variants                                                        *)
(***************************************************************************)

\* the verdict handleMC of part_000 returns in full mode on the responses
\* invocation k received: Accepted exactly when the snapshot page was
\* fetched and passes the filter, whatever happens in the deep-fetch chain
Part000Verdict(k) ==
    /\ Fetched(k)
    /\ EligibilityFilter(Html(k), inv[k].today) = "pass"

\* C22: in a mode other than urls, handleMC of either variant returns, on
\* the responses it received, the verdict handleMC of part_000 returns on
\* them: the variants agree on Accepted/Rejected.
VariantsAgree ==
    \A k \in DOMAIN inv :
        FullMode /\ inv[k].pc = "returned"
           => inv[k].result.valid = Part000Verdict(k)

====
